---- MODULE Spec2Model ----
(***************************************************************************)
(* latus: folder synchronisation through a shared ("cloud") folder.        *)
(* The model follows latus/sync.py: every node owns a LocalSync and a      *)
(* CloudSync watcher; the shared folder holds one event log per node       *)
(* (fsdb/<node>.db), the encrypted blob cache (cache/<hash>.fer) and the   *)
(* monotonically increasing value (miv) every node draws its seqs from.    *)
(***************************************************************************)
EXTENDS Integers, Sequences, FiniteSets, TLC

\* ------------------------------------------------------------------ bounds
MaxCalls == 4      \* dispatches run by all watchers together (sum of call_count)
MaxEdits == 3      \* changes the users make before they stop (SpecFair)
MaxRows == 2       \* rows of the files table (SpecDb)
MaxTime == 2       \* the latest modification time, in seconds (SpecDb)
MaxHashTime == 2   \* the longest hash time, in seconds (SpecDb)

\* ------------------------------------------------------------- value sets
Nodes == {"a", "b"}
Paths == {"p", "q"}
Contents == {"hello", "hi"}
MTimes == {"t1", "t2"}
UserPaths == {"p"}   \* the paths the users of Spec work on
None == "None"
NoInt == -1

\* Python truthiness of an optional string (None is falsy)
Truthy(x) == x # None

VARIABLES
    files,        \* files[n][p]: the file p of node n's latus folder
    trash,        \* trash[n]: what send2trash moved out of node n's folder
    fsdb,         \* fsdb[n]: the rows of fsdb/<n>.db, in insertion order
    cache,        \* cache[h]: the plaintext held (encrypted) by cache/<h>.fer
    miv,          \* miv[n]: the greatest value next_miv has returned on node n
    is_scanning,  \* is_scanning[n][t], t the watcher type
    call_count,   \* call_count[n][t]
    users,        \* the changes the users may still make (SpecFair)
    scan,         \* scan[n]: where node n's LocalSync.dispatch stands, and its locals
    last,         \* history: the pass that ran last, "user" once a user changed a file
    observer,     \* observer[n][t]: the watchdog observer of node n's watcher t
    db            \* core.db.DB: its tables, the files it scans, the last call's result

vars == <<files, trash, fsdb, cache, miv, is_scanning, call_count, users, scan, last, observer,
          db>>

Types == {"local", "cloud"}
NoFile == [content |-> None, mtime |-> None]

\* os.path.exists
Exists(f) == f.content # None

\* os.path.getsize of a file holding content c
Size(c) == CASE c = "hello" -> 5 [] c = "hi" -> 2 [] OTHER -> NoInt

\* latus.hash.calc_sha512: the hex digest of the content read, None on IOError
calc_sha512(f, ok) ==
    IF ~ok \/ ~Exists(f) THEN None
    ELSE CASE f.content = "hello" -> "H1" [] f.content = "hi" -> "H2"

Hashes == {"H1", "H2"}

\* all orders in which a finite set can be enumerated
Orders(S) ==
    {s \in [1..Cardinality(S) -> S] : \A i, j \in 1..Cardinality(S) : s[i] = s[j] => i = j}

\* ---------------------------------------------------------------- latus.miv
\* next_miv: a value greater than every value returned on this node before
\* (own) and than the counter as this node reads it from the shared folder
\* (seen); nothing keeps two nodes from being handed the same value
next_miv(own, seen) == (IF seen > own THEN seen ELSE own) + 1

\* --------------------------------------------------------------- latus.fsdb
\* FileSystemDB.update: one row is inserted, no row is touched
update(log, seq, path, size, hash, mtime) ==
    Append(log, [seq |-> seq, path |-> path, size |-> size, hash |-> hash, mtime |-> mtime])

\* the rows of a path, in insertion order
get_file_info(log, path) == SelectSeq(log, LAMBDA r : r.path = path)

\* FileSystemDB.get_paths: every path that has a row
get_paths(log) == {log[i].path : i \in DOMAIN log}

\* FileSystemDB.get_latest_file_info: the row inserted last for the path
get_latest_file_info(log, path) ==
    LET rows == get_file_info(log, path) IN rows[Len(rows)]

\* FileSystemDB.get_most_recent_hash: the hash of the latest row, None without rows
get_most_recent_hash(log, path) ==
    IF path \in get_paths(log) THEN get_latest_file_info(log, path).hash ELSE None

\* FileSystemDB.get_last_seq: the seq of the latest row, None without rows
get_last_seq(log, path) ==
    IF path \in get_paths(log) THEN get_latest_file_info(log, path).seq ELSE NoInt

\* ------------------------------------------------------------- latus.crypto
\* Crypto.compress: the file's bytes, as read now, become the blob;
\* nothing is written when the file cannot be read
compress(c, f, blob) ==
    IF Exists(f) THEN [c EXCEPT ![blob] = f.content] ELSE c

\* Crypto.expand: True and the decrypted file when the blob can be fetched
expand_ok(c, blob, ok) == ok /\ c[blob] # None
expand(c, blob, now) == [content |-> c[blob], mtime |-> now]

\* -------------------------------------------------------- LocalSync.dispatch
\* faulty variant: the row is written without comparing the hash with the most recent one
LocalUpdate_NoCompare(st, path, f, local_hash) ==
    IF Exists(f)
    THEN [st EXCEPT !.miv = next_miv(st.miv, st.seen),
                    !.log = update(st.log, next_miv(st.miv, st.seen), path, Size(f.content),
                                   local_hash, f.mtime)]
    ELSE st

\* one file of the walk, database part: a row with a fresh miv when the file
\* exists and its hash is not the most recent hash of the path
LocalUpdate(st, path, f, local_hash) ==
    LET most_recent_hash == get_most_recent_hash(st.log, path) IN
    IF Exists(f) /\ local_hash # most_recent_hash
    THEN [st EXCEPT !.miv = next_miv(st.miv, st.seen),
                    !.log = update(st.log, next_miv(st.miv, st.seen), path, Size(f.content),
                                   local_hash, f.mtime)]
    ELSE st

\* faulty variant: the blob is written whether or not it is there
LocalCompress_Overwrite(st, path, f, local_hash) ==
    [st EXCEPT !.cache = compress(st.cache, f, local_hash)]

\* one file of the walk, cache part: the blob is written unless it is there
LocalCompress(st, path, f, local_hash) ==
    IF st.cache[local_hash] = None
    THEN [st EXCEPT !.cache = compress(st.cache, f, local_hash)]
    ELSE st

\* one file of the walk: nothing without a hash, else the row, then the blob
LocalFile(st, path, f, hash_ok) ==
    LET local_hash == calc_sha512(f, hash_ok) IN
    IF Truthy(local_hash)
    THEN LocalCompress(LocalUpdate(st, path, f, local_hash), path, f, local_hash)
    ELSE st

\* faulty variant: the walk ends at the first file whose hash cannot be computed
RECURSIVE LocalCreated_Abort(_, _, _, _)
LocalCreated_Abort(st, order, fs, hashFail) ==
    IF order = <<>> \/ Head(order) \in hashFail THEN st
    ELSE LocalCreated_Abort(LocalFile(st, Head(order), fs[Head(order)], TRUE),
                            Tail(order), fs, hashFail)

\* created or updated local files, in the walker's order
RECURSIVE LocalCreated(_, _, _, _)
LocalCreated(st, order, fs, hashFail) ==
    IF order = <<>> THEN st
    ELSE LocalCreated(LocalFile(st, Head(order), fs[Head(order)], Head(order) \notin hashFail),
                      Tail(order), fs, hashFail)

\* faulty variant: a tombstone is written whenever the file is missing
LocalDeletedPath_NoCheck(st, path, f) ==
    IF ~Exists(f)
    THEN [st EXCEPT !.miv = next_miv(st.miv, st.seen),
                    !.log = update(st.log, next_miv(st.miv, st.seen), path, NoInt, None, None)]
    ELSE st

\* one recorded path of the deletion check: a tombstone with a fresh miv
LocalDeletedPath(st, path, f) ==
    IF ~Exists(f) /\ Truthy(get_latest_file_info(st.log, path).hash)
    THEN [st EXCEPT !.miv = next_miv(st.miv, st.seen),
                    !.log = update(st.log, next_miv(st.miv, st.seen), path, NoInt, None, None)]
    ELSE st

\* faulty variant: the check for local deletions is left out
LocalDeleted_Never(st, order, fs) == st

\* check for local deletions, over the paths the log held when the loop began
RECURSIVE LocalDeleted(_, _, _)
LocalDeleted(st, order, fs) ==
    IF order = <<>> THEN st
    ELSE LocalDeleted(LocalDeletedPath(st, Head(order), fs[Head(order)]), Tail(order), fs)

\* the whole local pass of node n
LocalPass(n, order, dorder, hashFail, seen) ==
    LocalDeleted(LocalCreated([log |-> fsdb[n], miv |-> miv[n], cache |-> cache, seen |-> seen],
                              order, files[n], hashFail),
                 dorder, files[n])

\* -------------------------------------------------------- CloudSync.dispatch
\* watchdog events: None (start, scan) or an event carrying src_path
NoEvent == [src_path |-> None]
Events == {NoEvent, [src_path |-> "fsdb/a.db"], [src_path |-> "fsdb/a.db-journal"]}

DbEvent == [src_path |-> "fsdb/a.db"]
JournalEvent == [src_path |-> "fsdb/a.db-journal"]

\* faulty variant: every event is taken for the change of a .db file
file_ext_Any(event) == ".db"

\* os.path.splitext(os.path.basename(event.src_path))[1], None without event
file_ext(event) ==
    CASE event.src_path = None -> None
      [] event.src_path = "fsdb/a.db" -> ".db"
      [] event.src_path = "fsdb/a.db-journal" -> ".db-journal"

\* faulty variant: the comparison of the winners loop reversed
WinnersDb_Least(winners, log, db_node_id) ==
    [partial_path \in DOMAIN winners \cup get_paths(log) |->
        IF partial_path \notin get_paths(log) THEN winners[partial_path]
        ELSE LET row == get_latest_file_info(log, partial_path)
                 file_info == [seq |-> row.seq, path |-> row.path, size |-> row.size,
                               hash |-> row.hash, mtime |-> row.mtime, node |-> db_node_id]
             IN IF partial_path \in DOMAIN winners
                THEN IF file_info.seq < winners[partial_path].seq
                     THEN file_info ELSE winners[partial_path]
                ELSE file_info]

\* one node's db in the winners loop: the latest row of each of its paths
\* replaces the winner so far only when its seq is greater
WinnersDb(winners, log, db_node_id) ==
    [partial_path \in DOMAIN winners \cup get_paths(log) |->
        IF partial_path \notin get_paths(log) THEN winners[partial_path]
        ELSE LET row == get_latest_file_info(log, partial_path)
                 file_info == [seq |-> row.seq, path |-> row.path, size |-> row.size,
                               hash |-> row.hash, mtime |-> row.mtime, node |-> db_node_id]
             IN IF partial_path \in DOMAIN winners
                THEN IF file_info.seq > winners[partial_path].seq
                     THEN file_info ELSE winners[partial_path]
                ELSE file_info]

\* the winners of all dbs, read in the order glob lists them
RECURSIVE Winners(_, _, _)
Winners(winners, logs, glob) ==
    IF glob = <<>> THEN winners
    ELSE Winners(WinnersDb(winners, logs[Head(glob)], Head(glob)), logs, Tail(glob))

NoWinners == [partial_path \in {} |-> None]

\* faulty variant: the blob is expanded and this node's log is left alone
CloudExpand_NoRecord(st, path, w, op_ok, now) ==
    IF expand_ok(st.cache, w.hash, op_ok)
    THEN [st EXCEPT !.fs[path] = expand(st.cache, w.hash, now)]
    ELSE st

\* a winner with a hash that is not the local file's: the blob is expanded
\* over the local file, then the winner's row is put in this node's log
\* unless the log's last seq of the path is the winner's
CloudExpand(st, path, w, op_ok, now) ==
    LET written == IF expand_ok(st.cache, w.hash, op_ok)
                   THEN [st EXCEPT !.fs[path] = expand(st.cache, w.hash, now)]
                   ELSE st
        last_seq == get_last_seq(st.log, path)
    IN IF w.seq # last_seq
       THEN [written EXCEPT !.log = update(st.log, w.seq, w.path, w.size, w.hash, w.mtime)]
       ELSE written

\* faulty variant: the local file is unlinked, not sent to the trash
CloudTrash_Unlink(st, path, w, op_ok) ==
    LET trashed == IF Exists(st.fs[path]) /\ op_ok
                   THEN [st EXCEPT !.fs[path] = NoFile]
                   ELSE st
    IN [trashed EXCEPT !.log = update(st.log, w.seq, w.path, NoInt, None, None)]

\* faulty variant: the tombstone overwrites the row the log ends with
CloudTrash_Rewrite(st, path, w, op_ok) ==
    LET trashed == IF Exists(st.fs[path]) /\ op_ok
                   THEN [st EXCEPT !.fs[path] = NoFile,
                                   !.trash = st.trash \cup {<<path, st.fs[path].content>>}]
                   ELSE st
        row == [seq |-> w.seq, path |-> w.path, size |-> NoInt, hash |-> None, mtime |-> None]
    IN [trashed EXCEPT !.log = IF st.log = <<>> THEN <<row>>
                                ELSE [st.log EXCEPT ![Len(st.log)] = row]]

\* a tombstone winner while the local file is there: the file is sent to the
\* trash (an OSError is logged), then the tombstone is put in this node's log
CloudTrash(st, path, w, op_ok) ==
    LET trashed == IF Exists(st.fs[path]) /\ op_ok
                   THEN [st EXCEPT !.fs[path] = NoFile,
                                   !.trash = st.trash \cup {<<path, st.fs[path].content>>}]
                   ELSE st
    IN [trashed EXCEPT !.log = update(st.log, w.seq, w.path, NoInt, None, None)]

\* faulty variant: a tombstone winner is recorded whether or not a local file is there
CloudApply_TombAlways(st, path, w, hash_ok, op_ok, now) ==
    LET f == st.fs[path]
        local_file_hash == IF Exists(f) THEN calc_sha512(f, hash_ok) ELSE None
    IN IF Truthy(w.hash)
       THEN IF w.hash # local_file_hash THEN CloudExpand(st, path, w, op_ok, now) ELSE st
       ELSE CloudTrash(st, path, w, op_ok)

\* the winner of one path applied to this node's folder and log
CloudApply(st, path, w, hash_ok, op_ok, now) ==
    LET f == st.fs[path]
        local_file_hash == IF Exists(f) THEN calc_sha512(f, hash_ok) ELSE None
    IN IF Truthy(w.hash)
       THEN IF w.hash # local_file_hash THEN CloudExpand(st, path, w, op_ok, now) ELSE st
       ELSE IF Truthy(local_file_hash) THEN CloudTrash(st, path, w, op_ok) ELSE st

\* every winner applied, in the order the winners dict is iterated
RECURSIVE CloudApplyAll(_, _, _, _, _, _)
CloudApplyAll(st, order, winners, hashFail, opFail, now) ==
    IF order = <<>> THEN st
    ELSE CloudApplyAll(CloudApply(st, Head(order), winners[Head(order)],
                                  Head(order) \notin hashFail, Head(order) \notin opFail, now),
                       Tail(order), winners, hashFail, opFail, now)

\* the whole cloud pass of node n
CloudPass(n, glob, order, hashFail, opFail, now) ==
    CloudApplyAll([log |-> fsdb[n], fs |-> files[n], trash |-> trash[n], cache |-> cache],
                  order, Winners(NoWinners, fsdb, glob), hashFail, opFail, now)

\* ------------------------------------------------------------------- state
\* ------------------------------------------------------------------ core.db
\* the files DB.scan walks, the files whose hash times are reported, and
\* what a file may hold
PutPaths == {"f", "g"}
DbPaths == {"f", "g", "h"}
DbContents == {"x", "yy"}

\* core.const, as far as core.db reads it
BIG_FILE_SIZE == 2
MAX_HASH_PERF_VALUES == 2

\* os.path.getsize and core.hash.calc_sha512 of a file holding content c
getsize(c) == CASE c = "x" -> 1 [] c = "yy" -> 2
sha512_of(c) == CASE c = "x" -> "Sx" [] c = "yy" -> "Syy"

\* what .first() returns for a query without rows (None)
NoEntry == [path |-> None, sha512 |-> None, size |-> NoInt, mtime |-> NoInt]
NoPerfRow == [abspath |-> None, size |-> NoInt, time |-> NoInt]

\* DB.is_time_different: more than one second apart
is_time_different(time_a, time_b) ==
    (IF time_a > time_b THEN time_a - time_b ELSE time_b - time_a) > 1

\* query(Files).filter(path).order_by(-Files.count).first(): the row added
\* last for the path, None without one
db_entry(rows, rel_path) ==
    LET found == SelectSeq(rows, LAMBDA r : r.path = rel_path) IN
    IF found = <<>> THEN NoEntry ELSE found[Len(found)]

\* query(HashPerf).order_by(HashPerf.time).first(): the rows one of which is
\* returned, those of the shortest time
shortest_time_rows(perf) == {r \in perf : \A q \in perf : r.time <= q.time}

\* DB.set_hash_perf on table perf, shortest_time_row being the row the query
\* returned (None for an empty table). abspath is the table's primary key:
\* adding a row whose abspath the table holds, unless that row is the one
\* deleted in the same flush, raises and leaves the table as it was
set_hash_perf(perf, path, size, time, shortest_time_row) ==
    LET full == Cardinality(perf) >= MAX_HASH_PERF_VALUES
        kept == IF full THEN perf \ {shortest_time_row} ELSE perf
    IN IF ~full \/ shortest_time_row = NoPerfRow \/ time > shortest_time_row.time
       THEN IF \E r \in kept : r.abspath = path
            THEN [perf |-> perf, used |-> "raise"]
            ELSE [perf |-> kept \cup {[abspath |-> path, size |-> size, time |-> time]},
                  used |-> "True"]
       ELSE [perf |-> perf, used |-> "False"]

\* the file of the path is new to the table or has changed, as put_file_info tests it
has_changed(rows, rel_path, f) ==
    LET e == db_entry(rows, rel_path) IN
    \/ e = NoEntry
    \/ e.size # getsize(f.content)
    \/ is_time_different(e.mtime, f.mtime)

\* DB.put_file_info on database d: a locked file is left out; a new or changed
\* file is hashed, a big one's hash time goes to set_hash_perf, and a row is
\* added; an exception of set_hash_perf leaves before the row is added
put_file_info(d, rel_path, sha512_time, shortest_time_row) ==
    LET f == d.disk[rel_path]
        size == getsize(f.content)
        is_big == size >= BIG_FILE_SIZE
        hp == IF is_big THEN set_hash_perf(d.perf, rel_path, size, sha512_time, shortest_time_row)
              ELSE [perf |-> d.perf, used |-> "False"]
        file_info == [path |-> rel_path, sha512 |-> sha512_of(f.content), size |-> size,
                      mtime |-> f.mtime]
    IN IF ~f.locked /\ has_changed(d.rows, rel_path, f)
       THEN IF hp.used = "raise"
            THEN [d EXCEPT !.last = [op |-> "put_file_info", path |-> rel_path,
                                     ret |-> "raise", time |-> sha512_time]]
            ELSE [d EXCEPT !.rows = Append(d.rows, file_info), !.perf = hp.perf,
                           !.last = [op |-> "put_file_info", path |-> rel_path,
                                     ret |-> "True", time |-> sha512_time]]
       ELSE [d EXCEPT !.last = [op |-> "put_file_info", path |-> rel_path,
                                ret |-> "False", time |-> sha512_time]]

\* a database as DB.__init__ makes it, beside a folder of two small files
NewDb ==
    [rows |-> <<>>, perf |-> {},
     disk |-> [p \in PutPaths |-> [content |-> "x", mtime |-> 0, locked |-> FALSE]],
     last |-> [op |-> "none", path |-> "f", ret |-> "False", time |-> 0]]

\* an observer as SyncBase.__init__ makes it: the thread is not started, no
\* event is queued or was handed to dispatch, request_exit was not called
NewObserver ==
    [thread |-> "new", queue |-> {}, event |-> NoEvent, exit |-> "none",
     busy |-> FALSE]

\* no LocalSync.dispatch of the node is running
Idle == [pc |-> "idle", walk |-> <<>>, path |-> None, local_hash |-> None]

Init ==
    /\ files = [n \in Nodes |-> [p \in Paths |-> NoFile]]
    /\ trash = [n \in Nodes |-> {}]
    /\ fsdb = [n \in Nodes |-> <<>>]
    /\ cache = [h \in Hashes |-> None]
    /\ miv = [n \in Nodes |-> 0]
    /\ is_scanning = [n \in Nodes |-> [t \in Types |-> FALSE]]
    /\ call_count = [n \in Nodes |-> [t \in Types |-> 0]]
    /\ users = MaxEdits
    /\ scan = [n \in Nodes |-> Idle]
    /\ last = [op |-> "user", node |-> None, clean |-> TRUE]
    /\ observer = [n \in Nodes |-> [t \in Types |-> NewObserver]]
    /\ db = NewDb

\* the dispatches run so far
RECURSIVE SumCalls(_)
SumCalls(S) ==
    IF S = {} THEN 0
    ELSE LET n == CHOOSE x \in S : TRUE
         IN call_count[n]["local"] + call_count[n]["cloud"] + SumCalls(S \ {n})
TotalCalls == SumCalls(Nodes)

\* the time a file written on node n is stamped with (os.path.getmtime)
Clock(n) == IF n = "a" THEN "t1" ELSE "t2"

\* the user saves a file in the latus folder of node n
UserWrite(n, p, c) ==
    /\ files[n][p].content # c
    /\ files' = [files EXCEPT ![n][p] = [content |-> c, mtime |-> Clock(n)]]
    /\ last' = [op |-> "user", node |-> None, clean |-> TRUE]
    /\ UNCHANGED <<trash, fsdb, cache, miv, is_scanning, call_count, scan, observer, db>>

\* the user removes a file from the latus folder of node n
UserDelete(n, p) ==
    /\ Exists(files[n][p])
    /\ files' = [files EXCEPT ![n][p] = NoFile]
    /\ last' = [op |-> "user", node |-> None, clean |-> TRUE]
    /\ UNCHANGED <<trash, fsdb, cache, miv, is_scanning, call_count, scan, observer, db>>

\* LocalSync.dispatch(event) on node n, run to its end
LocalDispatch(n, order, dorder, hashFail, seen) ==
    LET st == LocalPass(n, order, dorder, hashFail, seen) IN
    /\ scan[n].pc = "idle"
    /\ call_count' = [call_count EXCEPT ![n]["local"] = @ + 1]
    /\ is_scanning' = [is_scanning EXCEPT ![n]["local"] = FALSE]
    /\ fsdb' = [fsdb EXCEPT ![n] = st.log]
    /\ miv' = [miv EXCEPT ![n] = st.miv]
    /\ cache' = st.cache
    /\ last' = [op |-> "local", node |-> n, clean |-> hashFail = {}]
    /\ UNCHANGED <<files, trash, users, scan, db>>

\* faulty variant: the pass draws a value from the sequence counter
CloudDispatch_NewSeq(n, event, glob, order, hashFail, opFail) ==
    IF file_ext(event) = ".db"
    THEN LET st == CloudPass(n, glob, order, hashFail, opFail, Clock(n)) IN
         /\ call_count' = [call_count EXCEPT ![n]["cloud"] = @ + 1]
         /\ is_scanning' = [is_scanning EXCEPT ![n]["cloud"] = FALSE]
         /\ fsdb' = [fsdb EXCEPT ![n] = st.log]
         /\ files' = [files EXCEPT ![n] = st.fs]
         /\ trash' = [trash EXCEPT ![n] = st.trash]
         /\ miv' = [miv EXCEPT ![n] = next_miv(miv[n], 0)]
         /\ last' = [op |-> "cloud", node |-> n, clean |-> hashFail = {} /\ opFail = {}]
         /\ UNCHANGED <<cache, users, scan, db>>
    ELSE /\ hashFail = {} /\ opFail = {}
         /\ UNCHANGED <<files, trash, fsdb, cache, miv, is_scanning, call_count, users, scan, last, db>>

\* CloudSync.dispatch(event) on node n, run to its end
CloudDispatch(n, event, glob, order, hashFail, opFail) ==
    IF file_ext(event) = ".db"
    THEN LET st == CloudPass(n, glob, order, hashFail, opFail, Clock(n)) IN
         /\ call_count' = [call_count EXCEPT ![n]["cloud"] = @ + 1]
         /\ is_scanning' = [is_scanning EXCEPT ![n]["cloud"] = FALSE]
         /\ fsdb' = [fsdb EXCEPT ![n] = st.log]
         /\ files' = [files EXCEPT ![n] = st.fs]
         /\ trash' = [trash EXCEPT ![n] = st.trash]
         /\ last' = [op |-> "cloud", node |-> n, clean |-> hashFail = {} /\ opFail = {}]
         /\ UNCHANGED <<cache, miv, users, scan, db>>
    ELSE /\ hashFail = {} /\ opFail = {}
         /\ UNCHANGED <<files, trash, fsdb, cache, miv, is_scanning, call_count, users, scan, last, db>>

\* the counter as the shared folder holds it, and the values a node may read
\* from its copy of the shared folder
Counter == CHOOSE m \in {miv[n] : n \in Nodes} : \A n \in Nodes : miv[n] <= m
Seen == 0..Counter

ExistingPaths(n) == {p \in Paths : Exists(files[n][p])}
WinnerPaths == UNION {get_paths(fsdb[n]) : n \in Nodes}

\* a local dispatch of node n, whatever the walk's order and the reads that fail
LocalStep(n) ==
    /\ TotalCalls < MaxCalls
    /\ \E order \in Orders(ExistingPaths(n)), dorder \in Orders(get_paths(fsdb[n])),
       hashFail \in SUBSET ExistingPaths(n), seen \in Seen :
         LocalDispatch(n, order, dorder, hashFail, seen)
    /\ UNCHANGED observer

\* a cloud dispatch of node n, whatever the event, the orders and the failures
CloudStep(n) ==
    /\ TotalCalls < MaxCalls
    /\ \E event \in Events, glob \in Orders(Nodes), order \in Orders(WinnerPaths),
       hashFail \in SUBSET ExistingPaths(n), opFail \in SUBSET WinnerPaths :
         CloudDispatch(n, event, glob, order, hashFail, opFail)
    /\ UNCHANGED observer

Next ==
    \/ \E n \in Nodes, p \in UserPaths, c \in Contents : UserWrite(n, p, c) /\ UNCHANGED users
    \/ \E n \in Nodes, p \in UserPaths : UserDelete(n, p) /\ UNCHANGED users
    \/ \E n \in Nodes : LocalStep(n)
    \/ \E n \in Nodes : CloudStep(n)

Spec == Init /\ [][Next]_vars

\* ------------------------------------- LocalSync.dispatch, statement by statement
\* entry: the call is counted, the watcher scans, the walker lists the folder
LocalBegin(n, order) ==
    /\ scan[n].pc = "idle"
    /\ TotalCalls < MaxCalls
    /\ call_count' = [call_count EXCEPT ![n]["local"] = @ + 1]
    /\ is_scanning' = [is_scanning EXCEPT ![n]["local"] = TRUE]
    /\ scan' = [scan EXCEPT ![n] = [pc |-> "walk", walk |-> order, path |-> None,
                                    local_hash |-> None]]
    /\ last' = [op |-> "step", node |-> n, clean |-> TRUE]
    /\ UNCHANGED <<files, trash, fsdb, cache, miv, users, observer, db>>

\* the next file of the walk is hashed; without a hash the file is skipped
LocalHash(n, hash_ok) ==
    /\ scan[n].pc = "walk" /\ scan[n].walk # <<>>
    /\ LET partial_path == Head(scan[n].walk)
           local_hash == calc_sha512(files[n][partial_path], hash_ok)
       IN scan' = [scan EXCEPT ![n] =
                     IF Truthy(local_hash)
                     THEN [pc |-> "update", walk |-> Tail(scan[n].walk),
                           path |-> partial_path, local_hash |-> local_hash]
                     ELSE [pc |-> "walk", walk |-> Tail(scan[n].walk),
                           path |-> None, local_hash |-> None]]
    /\ last' = [op |-> "step", node |-> n, clean |-> TRUE]
    /\ UNCHANGED <<files, trash, fsdb, cache, miv, is_scanning, call_count, users, observer, db>>

\* the file hashed is compared with the log and recorded
LocalRecord(n, seen) ==
    /\ scan[n].pc = "update"
    /\ LET st == LocalUpdate([log |-> fsdb[n], miv |-> miv[n], cache |-> cache, seen |-> seen],
                             scan[n].path, files[n][scan[n].path], scan[n].local_hash)
       IN /\ fsdb' = [fsdb EXCEPT ![n] = st.log]
          /\ miv' = [miv EXCEPT ![n] = st.miv]
    /\ scan' = [scan EXCEPT ![n].pc = "compress"]
    /\ last' = [op |-> "step", node |-> n, clean |-> TRUE]
    /\ UNCHANGED <<files, trash, cache, is_scanning, call_count, users, observer, db>>

\* the blob of the file hashed is written to the cache unless it is there
LocalStore(n) ==
    /\ scan[n].pc = "compress"
    /\ LET st == LocalCompress([log |-> fsdb[n], miv |-> miv[n], cache |-> cache, seen |-> 0],
                               scan[n].path, files[n][scan[n].path], scan[n].local_hash)
       IN cache' = st.cache
    /\ scan' = [scan EXCEPT ![n] = [pc |-> "walk", walk |-> scan[n].walk, path |-> None,
                                    local_hash |-> None]]
    /\ last' = [op |-> "step", node |-> n, clean |-> TRUE]
    /\ UNCHANGED <<files, trash, fsdb, miv, is_scanning, call_count, users, observer, db>>

\* faulty variant: the dispatch ends without clearing the scanning state
LocalEnd_StillScanning(n, dorder, seen) ==
    /\ scan[n].pc = "walk" /\ scan[n].walk = <<>>
    /\ LET st == LocalDeleted([log |-> fsdb[n], miv |-> miv[n], cache |-> cache, seen |-> seen],
                              dorder, files[n])
       IN /\ fsdb' = [fsdb EXCEPT ![n] = st.log]
          /\ miv' = [miv EXCEPT ![n] = st.miv]
    /\ scan' = [scan EXCEPT ![n] = Idle]
    /\ last' = [op |-> "local", node |-> n, clean |-> FALSE]
    /\ UNCHANGED <<files, trash, cache, call_count, users, observer, is_scanning, db>>

\* after the walk: the deletion check, then the watcher waits again
LocalEnd(n, dorder, seen) ==
    /\ scan[n].pc = "walk" /\ scan[n].walk = <<>>
    /\ LET st == LocalDeleted([log |-> fsdb[n], miv |-> miv[n], cache |-> cache, seen |-> seen],
                              dorder, files[n])
       IN /\ fsdb' = [fsdb EXCEPT ![n] = st.log]
          /\ miv' = [miv EXCEPT ![n] = st.miv]
    /\ is_scanning' = [is_scanning EXCEPT ![n]["local"] = FALSE]
    /\ scan' = [scan EXCEPT ![n] = Idle]
    /\ last' = [op |-> "local", node |-> n, clean |-> FALSE]
    /\ UNCHANGED <<files, trash, cache, call_count, users, observer, db>>

\* a cloud dispatch of node n on a change of a log, in which nothing fails
CloudMerge(n) ==
    /\ TotalCalls < MaxCalls
    /\ \E glob \in Orders(Nodes), order \in Orders(WinnerPaths) :
       CloudDispatch(n, DbEvent, glob, order, {}, {})
    /\ UNCHANGED observer

\* in SpecSteps the user of node "a" works and its local watcher runs, while
\* the cloud watcher of node "b" merges what it finds in the shared folder
Writers == {"a"}
Readers == {"b"}

NextSteps ==
    \/ \E n \in Writers, p \in UserPaths, c \in Contents : UserWrite(n, p, c) /\ UNCHANGED users
    \/ \E n \in Writers, p \in UserPaths : UserDelete(n, p) /\ UNCHANGED users
    \/ \E n \in Writers : \E order \in Orders(ExistingPaths(n)) : LocalBegin(n, order)
    \/ \E n \in Writers, hash_ok \in BOOLEAN : LocalHash(n, hash_ok)
    \/ \E n \in Writers, seen \in Seen : LocalRecord(n, seen)
    \/ \E n \in Writers : LocalStore(n)
    \/ \E n \in Writers : \E dorder \in Orders(get_paths(fsdb[n])), seen \in Seen :
          LocalEnd(n, dorder, seen)
    \/ \E n \in Readers : CloudMerge(n)

\* the passes of LocalSync run statement by statement, interleaved with the
\* user and with the cloud passes of another node
SpecSteps == Init /\ [][NextSteps]_vars

\* ------------------------------------------------------ a folder of several files
\* the user of node "a" works on every path and its local watcher records,
\* while the cloud watcher of node "b" merges; any operation may fail
PathCalls == MaxCalls - 1

NextPaths ==
    \/ \E n \in Writers, p \in Paths, c \in Contents : UserWrite(n, p, c) /\ UNCHANGED users
    \/ \E n \in Writers, p \in Paths : UserDelete(n, p) /\ UNCHANGED users
    \/ \E n \in Writers : TotalCalls < PathCalls /\ LocalStep(n)
    \/ \E n \in Readers : TotalCalls < PathCalls /\ CloudStep(n)

SpecPaths == Init /\ [][NextPaths]_vars

\* ------------------------------------------------- the users stop, the nodes go on
\* what a pass of node n reads and may change, as it is now
LocalNow(n, seen) == [log |-> fsdb[n], miv |-> miv[n], cache |-> cache, seen |-> seen]
CloudNow(n) == [log |-> fsdb[n], fs |-> files[n], trash |-> trash[n], cache |-> cache]

\* glob.glob lists a folder in the order of the file system that holds it, and
\* every node reads its own copy of the shared folder: in SpecFair each node's
\* file system lists the node's own log first
Listing(n) == IF n = "a" THEN <<"a", "b">> ELSE <<"b", "a">>

\* a change of a user, while the users have not stopped
FairWrite(n, p, c) == users > 0 /\ UserWrite(n, p, c) /\ users' = users - 1
FairDelete(n, p) == users > 0 /\ UserDelete(n, p) /\ users' = users - 1

\* the users stop changing files
UsersStop ==
    /\ users > 0
    /\ users' = 0
    /\ UNCHANGED <<files, trash, fsdb, cache, miv, is_scanning, call_count, scan, last, observer, db>>

\* the local observer delivers a change of the folder: a local pass that
\* finds something to record, in which nothing fails
FairLocal(n) ==
    \E order \in Orders(ExistingPaths(n)), dorder \in Orders(get_paths(fsdb[n])),
       seen \in Seen :
      /\ LocalPass(n, order, dorder, {}, seen) # LocalNow(n, seen)
      /\ LocalDispatch(n, order, dorder, {}, seen)
      /\ UNCHANGED observer

\* the cloud observer delivers a change of a log: a cloud pass that finds
\* something to apply, in which nothing fails
FairCloud(n) ==
    \E order \in Orders(WinnerPaths) :
       /\ CloudPass(n, Listing(n), order, {}, {}, Clock(n)) # CloudNow(n)
       /\ CloudDispatch(n, DbEvent, Listing(n), order, {}, {})
       /\ UNCHANGED observer

NextFair ==
    \/ \E n \in Nodes, p \in UserPaths, c \in Contents : FairWrite(n, p, c)
    \/ \E n \in Nodes, p \in UserPaths : FairDelete(n, p)
    \/ UsersStop
    \/ \E n \in Nodes : FairLocal(n)
    \/ \E n \in Nodes : FairCloud(n)

\* every observer goes on delivering the changes it sees
SpecFair ==
    /\ Init /\ [][NextFair]_vars
    /\ \A n \in Nodes : WF_vars(FairLocal(n)) /\ WF_vars(FairCloud(n))

\* ------------------------------------------------ start, observer, request_exit
\* the events the emitter of a watcher's folder queues: a change under
\* latus_folder, a change of a file of the fsdb folder
FileEvent == [src_path |-> "latus/p"]
Queued(t) == IF t = "local" THEN {FileEvent} ELSE {DbEvent, JournalEvent}

\* a dispatch of the watcher runs on the observer's thread
InFlight(n, t) == t = "local" /\ scan[n].pc # "idle"

\* the dispatches SpecLife runs
LifeCalls == MaxCalls - 2

\* LocalSync.start(): dispatch(None), then observer.start()
LocalSyncStart(n, order, dorder, hashFail, seen) ==
    /\ observer[n]["local"].thread = "new"
    /\ LocalDispatch(n, order, dorder, hashFail, seen)
    /\ observer' = [observer EXCEPT ![n]["local"].thread = "alive"]

\* CloudSync.start(): dispatch(None), then observer.start()
CloudSyncStart(n, glob, order, hashFail, opFail) ==
    /\ observer[n]["cloud"].thread = "new"
    /\ CloudDispatch(n, NoEvent, glob, order, hashFail, opFail)
    /\ observer' = [observer EXCEPT ![n]["cloud"].thread = "alive"]

\* the emitter of a running observer queues an event; events may be
\* duplicated, and one that is queued already is not queued twice
Notify(n, t, e) ==
    /\ observer[n][t].thread = "alive"
    /\ e \notin observer[n][t].queue
    /\ observer' = [observer EXCEPT ![n][t].queue = @ \cup {e}]
    /\ UNCHANGED <<files, trash, fsdb, cache, miv, is_scanning, call_count, users, scan, last, db>>

\* the observer's thread takes an event off the queue; a thread that passed
\* its stop test before stop() was called still takes one
Taken(n, t, e) ==
    /\ observer[n][t].thread \in {"alive", "stopped"}
    /\ e \in observer[n][t].queue
    /\ observer' = [observer EXCEPT ![n][t].queue = @ \ {e}, ![n][t].event = e]

\* the local observer's thread calls LocalSync.dispatch(event): its entry
LocalDeliver(n, e, order) ==
    /\ Taken(n, "local", e)
    /\ scan[n].pc = "idle"
    /\ TotalCalls < LifeCalls
    /\ call_count' = [call_count EXCEPT ![n]["local"] = @ + 1]
    /\ is_scanning' = [is_scanning EXCEPT ![n]["local"] = TRUE]
    /\ scan' = [scan EXCEPT ![n] = [pc |-> "walk", walk |-> order, path |-> None,
                                    local_hash |-> None]]
    /\ last' = [op |-> "step", node |-> n, clean |-> TRUE]
    /\ UNCHANGED <<files, trash, fsdb, cache, miv, users, db>>

\* the cloud observer's thread calls CloudSync.dispatch(event)
CloudDeliver(n, e, glob, order, hashFail, opFail) ==
    /\ Taken(n, "cloud", e)
    /\ TotalCalls < LifeCalls
    /\ CloudDispatch(n, e, glob, order, hashFail, opFail)

\* faulty variant: observer.join() returns at once
join_NoWait(n, t) == TRUE

\* observer.join() returns when the observer's thread has ended
join(n, t) == observer[n][t].thread = "dead"

\* request_exit(), first half: observer.stop()
RequestExit(n, t) ==
    /\ observer[n][t].thread = "alive" /\ observer[n][t].exit = "none"
    /\ observer' = [observer EXCEPT ![n][t].thread = "stopped", ![n][t].exit = "join",
                                     ![n][t].busy = InFlight(n, t)]
    /\ UNCHANGED <<files, trash, fsdb, cache, miv, is_scanning, call_count, users, scan, last, db>>

\* a stopped observer's thread ends once the dispatch it runs has returned
ThreadEnd(n, t) ==
    /\ observer[n][t].thread = "stopped" /\ ~InFlight(n, t)
    /\ observer' = [observer EXCEPT ![n][t].thread = "dead"]
    /\ UNCHANGED <<files, trash, fsdb, cache, miv, is_scanning, call_count, users, scan, last, db>>

\* request_exit(), second half: observer.join() returns, then request_exit does
ExitReturn(n, t) ==
    /\ observer[n][t].exit = "join"
    /\ join(n, t)
    /\ observer' = [observer EXCEPT ![n][t].exit = "end"]
    /\ UNCHANGED <<files, trash, fsdb, cache, miv, is_scanning, call_count, users, scan, last, db>>

NextLife ==
    \/ \E n \in Writers, p \in UserPaths, c \in Contents : UserWrite(n, p, c) /\ UNCHANGED users
    \/ \E n \in Writers, p \in UserPaths : UserDelete(n, p) /\ UNCHANGED users
    \/ \E n \in Writers : \E order \in Orders(ExistingPaths(n)),
                            dorder \in Orders(get_paths(fsdb[n])),
                            hashFail \in SUBSET ExistingPaths(n), seen \in Seen :
          LocalSyncStart(n, order, dorder, hashFail, seen)
    \/ \E n \in Readers : \E glob \in Orders(Nodes), order \in Orders(WinnerPaths) :
          CloudSyncStart(n, glob, order, {}, {})
    \/ \E n \in Writers : \E e \in Queued("local") : Notify(n, "local", e)
    \/ \E n \in Readers : \E e \in Queued("cloud") : Notify(n, "cloud", e)
    \/ \E n \in Writers : \E e \in Queued("local"), order \in Orders(ExistingPaths(n)) :
          LocalDeliver(n, e, order)
    \/ \E n \in Writers, hash_ok \in BOOLEAN : LocalHash(n, hash_ok)
    \/ \E n \in Writers, seen \in Seen : LocalRecord(n, seen)
    \/ \E n \in Writers : LocalStore(n)
    \/ \E n \in Writers : \E dorder \in Orders(get_paths(fsdb[n])), seen \in Seen :
          LocalEnd(n, dorder, seen)
    \/ \E n \in Readers : \E e \in Queued("cloud"), glob \in Orders(Nodes),
                            order \in Orders(WinnerPaths),
                            hashFail \in SUBSET ExistingPaths(n), opFail \in SUBSET WinnerPaths :
          CloudDeliver(n, e, glob, order, hashFail, opFail)
    \/ \E n \in Writers : RequestExit(n, "local")
    \/ \E n \in Readers : RequestExit(n, "cloud")
    \/ \E n \in Writers : ThreadEnd(n, "local")
    \/ \E n \in Readers : ThreadEnd(n, "cloud")
    \/ \E n \in Writers : ExitReturn(n, "local")
    \/ \E n \in Readers : ExitReturn(n, "cloud")

\* the local watcher of node "a" and the cloud watcher of node "b" are
\* started, their observers deliver events, and they are asked to exit,
\* while the user of node "a" works
SpecLife == Init /\ [][NextLife]_vars

\* ------------------------------------------- Sync.scan() beside the observer
\* the dispatches after which Sync.scan() is called no more
ScanCalls == MaxCalls - 1

\* faulty variant: a dispatch is refused while the watcher scans
admits_Exclusive(flag) == ~flag

\* dispatch tests nothing on entry: set_scanning_state only logs a warning
\* when the flag is set already
admits(flag) == TRUE

\* Sync.scan() on the caller's thread: local_sync.dispatch(None), run to its
\* end whatever the observer's thread is doing, then cloud_sync.dispatch(None),
\* which returns at the test of the extension
Scan(n, order, dorder, hashFail, seen) ==
    LET st == LocalPass(n, order, dorder, hashFail, seen) IN
    /\ admits(is_scanning[n]["local"])
    /\ TotalCalls < ScanCalls
    /\ call_count' = [call_count EXCEPT ![n]["local"] = @ + 1]
    /\ is_scanning' = [is_scanning EXCEPT ![n]["local"] = FALSE]
    /\ fsdb' = [fsdb EXCEPT ![n] = st.log]
    /\ miv' = [miv EXCEPT ![n] = st.miv]
    /\ cache' = st.cache
    /\ last' = [op |-> "scan", node |-> n, clean |-> hashFail = {}]
    /\ file_ext(NoEvent) # ".db"
    /\ UNCHANGED <<files, trash, users, scan, observer, db>>

\* Sync.scan() of node n, whatever the walk's order and the reads that fail
ScanStep(n) ==
    \E order \in Orders(ExistingPaths(n)), dorder \in Orders(get_paths(fsdb[n])),
       hashFail \in SUBSET ExistingPaths(n), seen \in Seen :
      Scan(n, order, dorder, hashFail, seen)

NextScan ==
    \/ \E n \in Writers, p \in UserPaths, c \in Contents : UserWrite(n, p, c) /\ UNCHANGED users
    \/ \E n \in Writers, p \in UserPaths : UserDelete(n, p) /\ UNCHANGED users
    \/ \E n \in Writers : \E order \in Orders(ExistingPaths(n)) : LocalBegin(n, order)
    \/ \E n \in Writers, hash_ok \in BOOLEAN : LocalHash(n, hash_ok)
    \/ \E n \in Writers, seen \in Seen : LocalRecord(n, seen)
    \/ \E n \in Writers : LocalStore(n)
    \/ \E n \in Writers : \E dorder \in Orders(get_paths(fsdb[n])), seen \in Seen :
          LocalEnd(n, dorder, seen)
    \/ \E n \in Writers : ScanStep(n)

\* the observer's thread runs LocalSync.dispatch statement by statement while
\* the caller's thread may run Sync.scan() at any moment
SpecScan == Init /\ [][NextScan]_vars

\* ------------------------------------------------------- core.db.DB at work
\* what latus.sync works on
SyncVars ==
    <<files, trash, fsdb, cache, miv, is_scanning, call_count, users, scan, last, observer>>

\* the rows the shortest-time query may return
Shortest == IF db.perf = {} THEN {NoPerfRow} ELSE shortest_time_rows(db.perf)

\* the session works: no flush has failed (the code never rolls back)
Usable == db.last.ret # "raise"

\* the user saves content c in a file of the scanned folder, dt seconds after
\* its last change
DbTouch(p, c, dt) ==
    /\ db.disk[p].mtime + dt <= MaxTime
    /\ db' = [db EXCEPT !.disk[p].content = c, !.disk[p].mtime = @ + dt,
                        !.last = [NewDb.last EXCEPT !.op = "touch"]]
    /\ UNCHANGED SyncVars

\* another program locks or releases a file (core.util.is_locked)
DbLock(p) ==
    /\ db' = [db EXCEPT !.disk[p].locked = ~@,
                        !.last = [NewDb.last EXCEPT !.op = "lock"]]
    /\ UNCHANGED SyncVars

\* DB.put_file_info(rel_path, root)
PutFileInfo(p, sha512_time, shortest_time_row) ==
    /\ Usable /\ Len(db.rows) < MaxRows
    /\ db' = put_file_info(db, p, sha512_time, shortest_time_row)
    /\ UNCHANGED SyncVars

\* DB.set_hash_perf(absroot, path, size, time)
SetHashPerf(p, size, time, shortest_time_row) ==
    /\ Usable
    /\ LET hp == set_hash_perf(db.perf, p, size, time, shortest_time_row) IN
       db' = [db EXCEPT !.perf = hp.perf,
                        !.last = [op |-> "set_hash_perf", path |-> p, ret |-> hp.used,
                                  time |-> time]]
    /\ UNCHANGED SyncVars

NextDb ==
    \/ \E p \in PutPaths, c \in DbContents, dt \in 0..MaxTime : DbTouch(p, c, dt)
    \/ DbLock("f")
    \/ \E p \in PutPaths, t \in 1..MaxHashTime, r \in Shortest : PutFileInfo(p, t, r)
    \/ \E p \in DbPaths, t \in 1..MaxHashTime, r \in Shortest :
          SetHashPerf(p, BIG_FILE_SIZE, t, r)

\* a DB is filled from a folder whose files change
SpecDb == Init /\ [][NextDb]_vars

\* ------------------------------------------------------------ helper terms
\* the row a node's log treats as current for a path
Current(n, p) == get_latest_file_info(fsdb[n], p)
Recorded(n, p) == p \in get_paths(fsdb[n])

\* a winner without the node tag the winners loop adds
Row(w) == [seq |-> w.seq, path |-> w.path, size |-> w.size, hash |-> w.hash, mtime |-> w.mtime]

\* the rows an operation appended to node n's log
Appended(old, new) == SubSeq(new, Len(old) + 1, Len(new))

\* ----------------------------------------------------------------- claims
\* C1: for every path of any log the winner is a current record with the
\* greatest seq among the nodes' current records of the path, and when one
\* node's current seq is strictly greatest that record wins in every order
\* in which the log files are enumerated.
C1_WinnerGreatestSeq ==
    \A glob \in Orders(Nodes) :
       LET w == Winners(NoWinners, fsdb, glob) IN
       /\ DOMAIN w = WinnerPaths
       /\ \A p \in WinnerPaths :
            /\ Recorded(w[p].node, p)
            /\ Row(w[p]) = Current(w[p].node, p)
            /\ \A n \in Nodes : Recorded(n, p) => w[p].seq >= Current(n, p).seq
            /\ (\A n \in Nodes \ {w[p].node} : Recorded(n, p) => Current(n, p).seq < w[p].seq)
                 => \A glob2 \in Orders(Nodes) : Winners(NoWinners, fsdb, glob2)[p] = w[p]

\* C1 witness: a cloud pass has run while the two logs hold current records
\* of different seq for the same path
C1_Witness ==
    /\ last.op = "cloud"
    /\ \E p \in Paths :
         /\ Recorded("a", p) /\ Recorded("b", p)
         /\ Current("a", p).seq # Current("b", p).seq

\* the winner of path p picked by the pass that reads the logs in order glob
WinnerOf(glob, p) == Winners(NoWinners, fsdb, glob)[p]

\* no blob the pass of node n has to fetch is missing from the cache
FetchesOk(n, glob) ==
    \A p \in WinnerPaths :
       LET w == WinnerOf(glob, p) IN
       (Truthy(w.hash) /\ w.hash # calc_sha512(files[n][p], TRUE)) => cache[w.hash] # None

\* C3: after a cloud pass without fetch or trash failure, for every path of
\* any log the local file has the winner's digest when the winner has one
\* and does not exist when the winner is a tombstone; a file the pass
\* removed is in the trash.
C3_CloudPassMirrorsWinners ==
    [][\A n \in Nodes, glob \in Orders(Nodes), order \in Orders(WinnerPaths) :
          (/\ call_count'[n]["cloud"] # call_count[n]["cloud"]
           /\ FetchesOk(n, glob)
           /\ CloudDispatch(n, DbEvent, glob, order, {}, {})) =>
             \A p \in WinnerPaths :
                LET w == WinnerOf(glob, p) IN
                /\ Truthy(w.hash) => calc_sha512(files'[n][p], TRUE) = w.hash
                /\ ~Truthy(w.hash) => ~Exists(files'[n][p])
                /\ (Exists(files[n][p]) /\ ~Exists(files'[n][p]))
                     => <<p, files[n][p].content>> \in trash'[n]]_vars

\* C3 witness: a failure-free cloud pass has trashed the local file of a path
\* whose winner is a tombstone
C3_Witness ==
    \E n \in Nodes, p \in Paths :
       /\ last = [op |-> "cloud", node |-> n, clean |-> TRUE]
       /\ trash[n] # {} /\ ~Exists(files[n][p])
       /\ \E m \in Nodes \ {n} : Recorded(m, p) /\ ~Truthy(Current(m, p).hash)

\* C4 (as claimed): in every node's log the seqs strictly increase in
\* append order.
C4_SeqStrictlyIncreasing ==
    \A n \in Nodes : \A i, j \in DOMAIN fsdb[n] :
       i < j => fsdb[n][i].seq < fsdb[n][j].seq

\* C5 (as claimed): for every node and path the current record, the one
\* appended last for the path, has the greatest seq ever appended to that
\* node's log for the path.
C5_CurrentIsMaxSeq ==
    \A n \in Nodes : \A i \in DOMAIN fsdb[n] :
       fsdb[n][i].seq <= Current(n, fsdb[n][i].path).seq

\* C6: every log is append-only: each step leaves the log it found as a
\* prefix of the log it leaves, and the rows of a path read back are the
\* rows appended, in append order.
C6_AppendOnly ==
    [][\A n \in Nodes :
          /\ Len(fsdb[n]) <= Len(fsdb'[n])
          /\ SubSeq(fsdb'[n], 1, Len(fsdb[n])) = fsdb[n]
          /\ \A p \in Paths :
               get_file_info(fsdb'[n], p)
                 = get_file_info(fsdb[n], p) \o get_file_info(Appended(fsdb[n], fsdb'[n]), p)]_vars

\* C6 witness: a log that holds records appended by a local and by a cloud pass
C6_Witness ==
    \E n \in Nodes :
       /\ Len(fsdb[n]) >= 3
       /\ call_count[n]["local"] > 0 /\ call_count[n]["cloud"] > 0

\* C7: a local pass appends, for each existing file whose hash it computed,
\* exactly one record (path, size, digest, mtime of the file) with a newly
\* allocated seq when the log has no current record of the path or one of
\* another digest, and no record of the path when the digests are equal.
C7_LocalPassRecordsChanges ==
    [][\A n \in Nodes :
        \A order \in Orders(ExistingPaths(n)), dorder \in Orders(get_paths(fsdb[n])),
           hashFail \in SUBSET ExistingPaths(n), seen \in Seen :
          (call_count'[n]["local"] # call_count[n]["local"]
           /\ LocalDispatch(n, order, dorder, hashFail, seen)) =>
            \A p \in ExistingPaths(n) \ hashFail :
               LET f == files[n][p]
                   added == Appended(fsdb[n], fsdb'[n])
                   new == get_file_info(added, p)
               IN IF ~Recorded(n, p) \/ Current(n, p).hash # calc_sha512(f, TRUE)
                  THEN /\ Len(new) = 1
                       /\ new[1].size = Size(f.content)
                       /\ new[1].hash = calc_sha512(f, TRUE)
                       /\ new[1].mtime = f.mtime
                       /\ new[1].seq > miv[n] /\ new[1].seq <= miv'[n]
                  ELSE new = <<>>]_vars

\* C7 witness: a local pass has recorded a file whose content replaced
\* recorded content of another digest
C7_Witness ==
    \E n \in Nodes, p \in Paths :
       /\ last = [op |-> "local", node |-> n, clean |-> TRUE]
       /\ Exists(files[n][p]) /\ Recorded(n, p)
       /\ Len(get_file_info(fsdb[n], p)) = 2
       /\ get_file_info(fsdb[n], p)[1].hash = "H1"
       /\ get_file_info(fsdb[n], p)[2].hash = "H2"
       /\ get_file_info(fsdb[n], p)[2].seq = miv[n]
       /\ calc_sha512(files[n][p], TRUE) = "H2"

\* C9: when a recorded file (current record with a digest) is gone, a local
\* pass appends exactly one tombstone (size, digest and mtime absent) for the
\* path; when the current record is a tombstone already it appends nothing,
\* and no further local pass appends a record of the path.
C9_DeletionTombstoneOnce ==
    [][\A n \in Nodes :
        \A order \in Orders(ExistingPaths(n)), dorder \in Orders(get_paths(fsdb[n])),
           hashFail \in SUBSET ExistingPaths(n), seen \in Seen :
          (call_count'[n]["local"] # call_count[n]["local"]
           /\ LocalDispatch(n, order, dorder, hashFail, seen)) =>
            \A p \in get_paths(fsdb[n]) :
               ~Exists(files[n][p]) =>
                 LET new == get_file_info(Appended(fsdb[n], fsdb'[n]), p) IN
                 /\ IF Truthy(Current(n, p).hash)
                    THEN /\ Len(new) = 1
                         /\ new[1].size = NoInt /\ new[1].hash = None /\ new[1].mtime = None
                         /\ new[1].seq > miv[n] /\ new[1].seq <= miv'[n]
                    ELSE new = <<>>
                 /\ (\A o2 \in Orders(ExistingPaths(n)), d2 \in Orders(get_paths(fsdb[n])),
                        h2 \in SUBSET ExistingPaths(n), s2 \in Seen :
                          get_file_info(Appended(fsdb[n], LocalPass(n, o2, d2, h2, s2).log), p) = <<>>)']_vars

\* C9 witness: the user deleted a recorded file and a local pass has put one
\* tombstone after the file's record
C9_Witness ==
    \E n \in Nodes, p \in Paths :
       /\ last.op = "local" /\ last.node = n
       /\ ~Exists(files[n][p]) /\ trash[n] = {}
       /\ Len(get_file_info(fsdb[n], p)) = 2
       /\ Truthy(get_file_info(fsdb[n], p)[1].hash)
       /\ ~Truthy(get_file_info(fsdb[n], p)[2].hash)

C8_BlobBeforeRecord ==
    \A n \in Nodes : \A i \in DOMAIN fsdb[n] :
       Truthy(fsdb[n][i].hash) => cache[fsdb[n][i].hash] # None

\* the records of path p with the greatest seq of all logs
AllRows(p) == UNION {{fsdb[n][i] : i \in {k \in DOMAIN fsdb[n] : fsdb[n][k].path = p}} : n \in Nodes}
GreatestRows(p) == {r \in AllRows(p) : \A r2 \in AllRows(p) : r2.seq <= r.seq}

\* file f is what record r says: r's content, no file when r is a tombstone
Holds(f, r) == IF Truthy(r.hash) THEN calc_sha512(f, TRUE) = r.hash ELSE ~Exists(f)

\* every folder holds, for every path, what one greatest-seq record says
Converged ==
    \A p \in Paths :
       IF AllRows(p) = {} THEN \A n \in Nodes : ~Exists(files[n][p])
       ELSE \E r \in GreatestRows(p) : \A n \in Nodes : Holds(files[n][p], r)

\* no pass of any node would change a log, the cache, the miv or a folder,
\* with the logs listed as the node's file system lists them
Quiet ==
    \A n \in Nodes :
       /\ \A order \in Orders(ExistingPaths(n)), dorder \in Orders(get_paths(fsdb[n])),
             seen \in Seen :
            LocalPass(n, order, dorder, {}, seen) = LocalNow(n, seen)
       /\ \A order \in Orders(WinnerPaths) :
            CloudPass(n, Listing(n), order, {}, {}, Clock(n)) = CloudNow(n)

\* C2 (as claimed): once the users have stopped, with every node going on to
\* dispatch and nothing failing, eventually and for ever every folder holds
\* for every path the content of a greatest-seq record (no file for a
\* tombstone) and no pass adds to a log.
C2_Convergence == [](users = 0 => <>[](Converged /\ Quiet))

LocalFileHash(n, p) ==
    IF Exists(files[n][p]) THEN calc_sha512(files[n][p], TRUE) ELSE None

\* C12 (as claimed): when the fetch or the write of the winner's blob fails in
\* a cloud pass, the local file of the path is unchanged and no record of the
\* path is appended to this node's log.
C12_FetchFailureLeavesPath ==
    [][\A n \in Nodes, glob \in Orders(Nodes), order \in Orders(WinnerPaths),
          opFail \in SUBSET WinnerPaths :
          (/\ call_count'[n]["cloud"] # call_count[n]["cloud"]
           /\ CloudDispatch(n, DbEvent, glob, order, {}, opFail)) =>
             \A p \in opFail :
                LET w == WinnerOf(glob, p) IN
                (Truthy(w.hash) /\ w.hash # LocalFileHash(n, p)) =>
                  /\ files'[n][p] = files[n][p]
                  /\ get_file_info(Appended(fsdb[n], fsdb'[n]), p) = <<>>]_vars

\* C13 (as claimed): when sending the local file to the trash fails while a
\* tombstone winner is applied, the file stays and no tombstone of the path is
\* written to this node's log.
C13_TrashFailureLeavesPath ==
    [][\A n \in Nodes, glob \in Orders(Nodes), order \in Orders(WinnerPaths),
          opFail \in SUBSET WinnerPaths :
          (/\ call_count'[n]["cloud"] # call_count[n]["cloud"]
           /\ CloudDispatch(n, DbEvent, glob, order, {}, opFail)) =>
             \A p \in opFail :
                LET w == WinnerOf(glob, p) IN
                (~Truthy(w.hash) /\ Truthy(LocalFileHash(n, p))) =>
                  /\ files'[n][p] = files[n][p]
                  /\ get_file_info(Appended(fsdb[n], fsdb'[n]), p) = <<>>]_vars

\* rows without their seq
NoSeq(rows) ==
    [i \in DOMAIN rows |-> [path |-> rows[i].path, size |-> rows[i].size,
                            hash |-> rows[i].hash, mtime |-> rows[i].mtime]]

C15_AdoptionCopiesWinner ==
    [][\A n \in Nodes :
        call_count'[n]["cloud"] # call_count[n]["cloud"] =>
          \A glob \in Orders(Nodes), order \in Orders(WinnerPaths) :
            CloudDispatch(n, DbEvent, glob, order, {}, {}) =>
              \A p \in WinnerPaths :
                 LET w == WinnerOf(glob, p) IN
                 (Truthy(w.hash) /\ w.hash # LocalFileHash(n, p) /\ cache[w.hash] # None) =>
                   /\ p \in get_paths(fsdb'[n])
                   /\ get_latest_file_info(fsdb'[n], p) = Row(w)
                   /\ miv' = miv
                   /\ get_last_seq(fsdb[n], p) = w.seq
                        => get_file_info(Appended(fsdb[n], fsdb'[n]), p) = <<>>]_vars


\* the file of the trace and its hash
Notes == [content |-> "hello", mtime |-> Clock("a")]
NotesHash == calc_sha512(Notes, TRUE)

\* A's log begins with the record A's own local pass made of the file
NotesRecorded ==
    /\ NoSeq(SubSeq(fsdb["a"], 1, 1)) = <<[path |-> "p", size |-> Size(Notes.content),
                                           hash |-> NotesHash, mtime |-> Notes.mtime]>>
    /\ fsdb["a"][1].seq <= miv["a"]

\* the trace's stages: A has created p and nothing else has happened; A has
\* recorded it; B holds the content and A has deleted its file
TraceCreated ==
    /\ files = [n \in Nodes |-> [q \in Paths |-> IF n = "a" /\ q = "p" THEN Notes ELSE NoFile]]
    /\ fsdb = [n \in Nodes |-> <<>>]
    /\ cache = [h \in Hashes |-> None]
TraceRecorded ==
    /\ files["a"]["p"] = Notes
    /\ Len(fsdb["a"]) = 1 /\ NotesRecorded
    /\ cache[NotesHash] # None
    /\ ~Exists(files["b"]["p"]) /\ fsdb["b"] = <<>>
TraceDeleted ==
    /\ ~Exists(files["a"]["p"])
    /\ Len(fsdb["a"]) = 1 /\ NotesRecorded
    /\ files["b"]["p"].content = Notes.content
    /\ \A i \in DOMAIN fsdb["b"] : fsdb["b"][i] = fsdb["a"][1]
TraceTombstoned ==
    /\ ~Exists(files["a"]["p"])
    /\ Len(fsdb["a"]) = 2 /\ NotesRecorded /\ ~Truthy(fsdb["a"][2].hash)
    /\ files["b"]["p"].content = Notes.content
    /\ \A i \in DOMAIN fsdb["b"] : fsdb["b"][i] = fsdb["a"][1]

\* C16: the end-to-end trace. A creates p with hash H1 and its local pass
\* puts H1 in the cache and one record (p, size, H1, mtime) in A's log; B's
\* cloud pass then writes that content to B's p; A deletes p and its next
\* local pass appends one tombstone of greater seq; B's next cloud pass has
\* the tombstone as winner and moves B's p to the trash.
C16_EndToEndTrace ==
    [][/\ (TraceCreated /\ call_count'["a"]["local"] # call_count["a"]["local"]) =>
            \A seen \in Seen :
               LocalDispatch("a", <<"p">>, <<>>, {}, seen) =>
                 /\ cache'[NotesHash] = Notes.content
                 /\ NoSeq(fsdb'["a"]) = <<[path |-> "p", size |-> Size(Notes.content),
                                           hash |-> NotesHash, mtime |-> Notes.mtime]>>
       /\ (TraceRecorded /\ call_count'["b"]["cloud"] # call_count["b"]["cloud"]) =>
            \A glob \in Orders(Nodes), order \in Orders(WinnerPaths) :
               CloudDispatch("b", DbEvent, glob, order, {}, {}) =>
                 files'["b"]["p"].content = Notes.content
       /\ (TraceDeleted /\ call_count'["a"]["local"] # call_count["a"]["local"]) =>
            \A seen \in Seen :
               LocalDispatch("a", <<>>, <<"p">>, {}, seen) =>
                 LET new == Appended(fsdb["a"], fsdb'["a"]) IN
                 /\ Len(new) = 1
                 /\ new[1].path = "p" /\ new[1].hash = None
                 /\ new[1].size = NoInt /\ new[1].mtime = None
                 /\ new[1].seq > fsdb["a"][1].seq
       /\ (TraceTombstoned /\ call_count'["b"]["cloud"] # call_count["b"]["cloud"]) =>
            \A glob \in Orders(Nodes), order \in Orders(WinnerPaths) :
               CloudDispatch("b", DbEvent, glob, order, {}, {}) =>
                 /\ Row(WinnerOf(glob, "p")) = fsdb["a"][2]
                 /\ ~Exists(files'["b"]["p"])
                 /\ <<"p", Notes.content>> \in trash'["b"]
      ]_vars

\* C16 witness: the trace has run to its end
C16_Witness ==
    /\ call_count["a"]["local"] = 2 /\ call_count["b"]["cloud"] = 2
    /\ Len(fsdb["a"]) = 2 /\ fsdb["a"][1].hash = NotesHash /\ ~Truthy(fsdb["a"][2].hash)
    /\ fsdb["a"][2].seq > fsdb["a"][1].seq
    /\ ~Exists(files["a"]["p"]) /\ ~Exists(files["b"]["p"])
    /\ trash["b"] = {<<"p", Notes.content>>}
    /\ last = [op |-> "cloud", node |-> "b", clean |-> TRUE]


\* node n's cloud pass sees records in the other nodes' logs only, and the
\* winner of path p has a blob in the cache that is not n's file
AdoptsForeign(n, glob, p) ==
    /\ fsdb[n] = <<>>
    /\ p \in WinnerPaths
    /\ Truthy(WinnerOf(glob, p).hash)
    /\ WinnerOf(glob, p).hash # LocalFileHash(n, p)
    /\ cache[WinnerOf(glob, p).hash] # None

\* C17 (as claimed): when B's cloud pass sees only A's log and writes A's
\* winning content to B's file, B's own log is the same before and after.
C17_AdoptionLeavesLog ==
    [][\A n \in Nodes :
        call_count'[n]["cloud"] # call_count[n]["cloud"] =>
          \A glob \in Orders(Nodes), order \in Orders(WinnerPaths) :
            (CloudDispatch(n, DbEvent, glob, order, {}, {})
               /\ \E p \in Paths : AdoptsForeign(n, glob, p)) =>
              fsdb'[n] = fsdb[n]]_vars

\* C17 (amended): when B's cloud pass sees only A's log and writes A's
\* winning content to B's file, B's own log gains for that path exactly one
\* record, the winner's seq, path, size, hash and mtime, and the sequence
\* counter is not advanced.
C17_AdoptionAppendsCopy ==
    [][\A n \in Nodes :
        call_count'[n]["cloud"] # call_count[n]["cloud"] =>
          \A glob \in Orders(Nodes), order \in Orders(WinnerPaths) :
            CloudDispatch(n, DbEvent, glob, order, {}, {}) =>
              \A p \in Paths :
                 AdoptsForeign(n, glob, p) =>
                   /\ files'[n][p].content = cache[WinnerOf(glob, p).hash]
                   /\ get_file_info(fsdb'[n], p) = <<Row(WinnerOf(glob, p))>>
                   /\ miv' = miv]_vars

\* C17 witness: a cloud pass has written the other node's content to this
\* node's file and this node's log, empty before, holds the copy of the
\* other node's record
C17_Witness ==
    \E n \in Nodes, m \in Nodes, p \in Paths :
       /\ n # m
       /\ last = [op |-> "cloud", node |-> n, clean |-> TRUE]
       /\ call_count[n] = [local |-> 0, cloud |-> 1]
       /\ Len(fsdb[m]) = 1 /\ fsdb[n] = fsdb[m] /\ Truthy(fsdb[m][1].hash)
       /\ files[n][p].content = files[m][p].content
       /\ files[n][p].mtime = Clock(n) /\ files[m][p].mtime = Clock(m)


\* start() of node n's watcher t returns in this step
Started(n, t) == observer[n][t].thread = "new" /\ observer'[n][t].thread = "alive"

\* C18 (as claimed): start() of either watcher runs one full pass before the
\* observer is started: once it has returned, the local files that were there
\* before are recorded in this node's log (local watcher), and the winners of
\* the logs that were there before are applied to the local folder (cloud
\* watcher).
C18_StartRunsFullPass ==
    [][\A n \in Nodes :
        /\ Started(n, "local") =>
             \A order \in Orders(ExistingPaths(n)), dorder \in Orders(get_paths(fsdb[n])),
                seen \in Seen :
               LocalSyncStart(n, order, dorder, {}, seen) =>
                 \A p \in ExistingPaths(n) :
                    /\ p \in get_paths(fsdb'[n])
                    /\ get_latest_file_info(fsdb'[n], p).hash = LocalFileHash(n, p)
        /\ Started(n, "cloud") =>
             \A glob \in Orders(Nodes), order \in Orders(WinnerPaths) :
               (FetchesOk(n, glob) /\ CloudSyncStart(n, glob, order, {}, {})) =>
                 \A p \in WinnerPaths :
                    LET w == WinnerOf(glob, p) IN
                    /\ Truthy(w.hash) => calc_sha512(files'[n][p], TRUE) = w.hash
                    /\ ~Truthy(w.hash) => ~Exists(files'[n][p])
      ]_vars


\* the cloud observer of node n hands event e to CloudSync.dispatch in this step
Handed(n, e) == e \in observer[n]["cloud"].queue /\ e \notin observer'[n]["cloud"].queue

\* C19: a notification of the cloud watcher starts a merge pass only when the
\* changed file has the .db extension: the pass is counted for a .db file,
\* and for any other file the call count, the scanning flag, the logs and
\* the local folders (and the trash, the cache and the counter) stay as
\* they were.
C19_OnlyDbTriggersMerge ==
    [][\A n \in Nodes :
        /\ Handed(n, DbEvent) => call_count'[n]["cloud"] = call_count[n]["cloud"] + 1
        /\ Handed(n, JournalEvent) =>
             /\ call_count' = call_count
             /\ is_scanning' = is_scanning
             /\ fsdb' = fsdb /\ files' = files
             /\ trash' = trash /\ cache' = cache /\ miv' = miv
      ]_vars

\* C19 witness: the cloud watcher was last handed the change of a file that
\* is no log and has run no pass, while the winner of a path is a record
\* whose content the local folder lacks
C19_Witness ==
    \E n \in Nodes, p \in Paths :
       /\ observer[n]["cloud"].event = JournalEvent
       /\ call_count[n]["cloud"] = 0
       /\ p \in WinnerPaths
       /\ \A glob \in Orders(Nodes) :
            Truthy(WinnerOf(glob, p).hash) /\ cache[WinnerOf(glob, p).hash] # None
       /\ ~Exists(files[n][p])


\* C20: request_exit() stops the observer, then joins its thread: once it has
\* returned the observer hands no event to dispatch and no dispatch of the
\* watcher begins, and on its return no dispatch of the watcher is in
\* flight: one that was in flight when request_exit() was called has run to
\* its end, the watcher scans no more.
C20_ExitStopsThenJoins ==
    [][\A n \in Nodes, t \in Types :
        /\ observer[n][t].exit = "end" =>
             /\ call_count'[n][t] = call_count[n][t]
             /\ observer'[n][t].queue = observer[n][t].queue
             /\ observer'[n][t].thread = "dead"
        /\ (observer[n][t].exit = "join" /\ observer'[n][t].exit = "end") =>
             /\ ~InFlight(n, t)
             /\ observer[n][t].busy => is_scanning[n][t] = FALSE
      ]_vars

\* C20 witness: request_exit() of the local watcher was called while a
\* dispatch delivered by the observer was in flight and has returned; the
\* dispatch has run to its end
C20_Witness ==
    \E n \in Nodes :
       /\ observer[n]["local"].exit = "end" /\ observer[n]["local"].busy
       /\ observer[n]["local"].thread = "dead"
       /\ observer[n]["local"].event = FileEvent
       /\ call_count[n]["local"] = 2
       /\ scan[n] = Idle /\ is_scanning[n]["local"] = FALSE
       /\ last = [op |-> "local", node |-> n, clean |-> FALSE]


\* C21 (as claimed): when two nodes' current records of a path have the same
\* greatest seq and different hashes, the winner of the path is the same
\* record in whatever order the log files are listed.
C21_TieBreakDeterministic ==
    \A p \in WinnerPaths, n \in Nodes, m \in Nodes :
       (/\ Recorded(n, p) /\ Recorded(m, p)
        /\ Current(n, p).seq = Current(m, p).seq
        /\ Current(n, p).hash # Current(m, p).hash
        /\ \A k \in Nodes : Recorded(k, p) => Current(k, p).seq <= Current(n, p).seq) =>
         \A glob \in Orders(Nodes), glob2 \in Orders(Nodes) :
            Row(WinnerOf(glob, p)) = Row(WinnerOf(glob2, p))


\* log old is the beginning of log new
Extends(old, new) == Len(old) <= Len(new) /\ SubSeq(new, 1, Len(old)) = old

\* C22: a dispatch of node n writes no log but n's own, to which it only
\* appends; a cloud dispatch writes neither the cache nor the sequence
\* counter, and a local dispatch changes no file of a local folder.
C22_WritesOwnLogOnly ==
    [][\A n \in Nodes :
        /\ call_count'[n]["local"] # call_count[n]["local"] =>
             /\ \A m \in Nodes \ {n} : fsdb'[m] = fsdb[m]
             /\ Extends(fsdb[n], fsdb'[n])
             /\ files' = files /\ trash' = trash
        /\ call_count'[n]["cloud"] # call_count[n]["cloud"] =>
             /\ \A m \in Nodes \ {n} : fsdb'[m] = fsdb[m] /\ files'[m] = files[m]
             /\ Extends(fsdb[n], fsdb'[n])
             /\ cache' = cache /\ miv' = miv
      ]_vars

\* C22 witness: both nodes have recorded a file of their own and a cloud pass
\* has then added the other node's record to this node's log
C22_Witness ==
    \E n \in Nodes, m \in Nodes :
       /\ n # m
       /\ last = [op |-> "cloud", node |-> n, clean |-> TRUE]
       /\ call_count[n]["local"] > 0 /\ call_count[m]["local"] > 0
       /\ Len(fsdb[n]) = 2 /\ Len(fsdb[m]) = 1
       /\ fsdb[n][2] = fsdb[m][1] /\ fsdb[n][1] # fsdb[m][1]


C24_FlagAdvisoryOnly ==
    [][\A n \in Writers :
        /\ (scan[n].pc # "idle" /\ TotalCalls < ScanCalls) => ENABLED ScanStep(n)
        /\ (scan[n].pc # "idle" /\ call_count'[n]["local"] # call_count[n]["local"]) =>
             /\ scan'[n] = scan[n]
             /\ is_scanning'[n]["local"] = FALSE
      ]_vars

\* C24 witness: the flag reads False while a dispatch of the watcher, which
\* Sync.scan() has overlapped, still has a file to record
C24_Witness ==
    \E n \in Nodes :
       /\ scan[n].pc = "update"
       /\ is_scanning[n]["local"] = FALSE
       /\ call_count[n]["local"] = 2
       /\ last = [op |-> "step", node |-> n, clean |-> TRUE]


\* C25 (as claimed): once a cloud pass of node n has applied a winner taken
\* from another node to a path (written its content, or trashed the file for
\* a tombstone), a local pass run on n next, before any user changes a file,
\* appends no record of the path to n's log, and draws no seq when it
\* appends nothing.
C25_NoEcho ==
    [][\A n \in Nodes :
        call_count'[n]["cloud"] # call_count[n]["cloud"] =>
          \A glob \in Orders(Nodes), order \in Orders(WinnerPaths) :
            (FetchesOk(n, glob) /\ CloudDispatch(n, DbEvent, glob, order, {}, {})) =>
              \A p \in WinnerPaths :
                 (WinnerOf(glob, p).node # n /\ files'[n][p] # files[n][p]) =>
                   (\A o2 \in Orders(ExistingPaths(n)), d2 \in Orders(get_paths(fsdb[n])),
                       s2 \in Seen :
                      LET st == LocalPass(n, o2, d2, {}, s2) IN
                      /\ get_file_info(Appended(fsdb[n], st.log), p) = <<>>
                      /\ st.log = fsdb[n] => st.miv = miv[n])'
      ]_vars


\* the content of node n's file p is what n's log records for p
ContentRecorded(n, p) == get_most_recent_hash(fsdb[n], p) = LocalFileHash(n, p)

\* C26 (as claimed): a cloud pass of node n neither overwrites nor trashes a
\* local file whose content n's log has not recorded yet.
C26_LocalEditNotLost ==
    [][\A n \in Nodes :
        call_count'[n]["cloud"] # call_count[n]["cloud"] =>
          \A p \in Paths :
             (Exists(files[n][p]) /\ ~ContentRecorded(n, p)) => files'[n][p] = files[n][p]
      ]_vars


\* the hash of content c
HashOf(c) == calc_sha512([content |-> c, mtime |-> None], TRUE)

\* C27 (as claimed): every cache entry stored under hash d holds content
\* whose hash is d, and every log record with hash d and size s describes
\* content of that hash and size, also when the file is changed while a
\* local pass is between hashing it, reading its size and storing its blob.
C27_CacheAndRecordsMatchContent ==
    /\ \A d \in Hashes : cache[d] # None => HashOf(cache[d]) = d
    /\ \A n \in Nodes : \A i \in DOMAIN fsdb[n] :
         Truthy(fsdb[n][i].hash) =>
           \E c \in Contents : HashOf(c) = fsdb[n][i].hash /\ Size(c) = fsdb[n][i].size


\* the rows of a files table that a path has, oldest first
RowsOf(rows, p) == SelectSeq(rows, LAMBDA r : r.path = p)

\* C28: a call of DB.put_file_info on a file that can be read appends one row
\* for the file and returns True exactly when the table has no row for the
\* path, or the size in the path's latest row differs from the file's size, or
\* that row's mtime is more than one second from the file's mtime; otherwise it
\* appends nothing and returns False; the rows the table had stay as they were
C28_PutFileInfoAppendsOnChange ==
    [][(db'.last.op = "put_file_info" /\ db' # db /\ ~db.disk[db'.last.path].locked) =>
        LET p == db'.last.path
            f == db.disk[p]
            had == RowsOf(db.rows, p)
            latest == had[Len(had)]
            changed == \/ had = <<>>
                       \/ latest.size # getsize(f.content)
                       \/ latest.mtime - f.mtime > 1
                       \/ f.mtime - latest.mtime > 1
        IN /\ SubSeq(db'.rows, 1, Len(db.rows)) = db.rows
           /\ IF changed
              THEN /\ db'.last.ret = "True"
                   /\ Len(db'.rows) = Len(db.rows) + 1
                   /\ db'.rows[Len(db'.rows)].path = p
                   /\ db'.rows[Len(db'.rows)].size = getsize(f.content)
                   /\ db'.rows[Len(db'.rows)].mtime = f.mtime
              ELSE /\ db'.last.ret = "False"
                   /\ db'.rows = db.rows]_vars

\* C29: a call of DB.set_hash_perf leaves at most MAX_HASH_PERF_VALUES rows in
\* hashperf; when the table is not full or the call's time is longer than the
\* shortest time stored, the call returns True, its row is in the table and,
\* the table having been full, a row of the shortest time has left it;
\* otherwise the table is unchanged and the call returns False
C29_HashPerfKeepsLongest ==
    [][(db'.last.op = "set_hash_perf" /\ db' # db) =>
        LET full == Cardinality(db.perf) >= MAX_HASH_PERF_VALUES
            longer == \E r \in db.perf : db'.last.time > r.time
            row == [abspath |-> db'.last.path, size |-> BIG_FILE_SIZE, time |-> db'.last.time]
        IN /\ Cardinality(db'.perf) <= MAX_HASH_PERF_VALUES
           /\ IF ~full \/ longer
              THEN /\ db'.last.ret = "True"
                   /\ row \in db'.perf
                   /\ full => \E r \in db.perf :
                                 /\ \A q \in db.perf : r.time <= q.time
                                 /\ db'.perf = (db.perf \ {r}) \cup {row}
              ELSE /\ db'.last.ret = "False"
                   /\ db'.perf = db.perf]_vars

====
